---- MODULE Spec2Model ----
(***************************************************************************)
(* DoxygenRunner of arduino/render-docs: installation check, Doxygen       *)
(* config synthesis, tool execution, classification of the tool's failure, *)
(* filtering of the diagnostics and verification of the XML output.        *)
(*                                                                         *)
(* Text is modelled as a sequence of one-character strings, so that the    *)
(* regular expressions and String methods of the source are computed       *)
(* character by character.                                                 *)
(***************************************************************************)
EXTENDS Integers, Sequences, FiniteSets, TLC

VARIABLES st, tw

vars == <<st, tw>>

(***************************************************************************)
(* Bounds of the model.                                                    *)
(***************************************************************************)
\* number of text fragments concatenated into a raw stderr text
MaxFragments == 3
\* number of entries (files and subdirectories, at any depth) found in the
\* XML folder before the run
MaxEntries == 3

(***************************************************************************)
(* Text helpers.                                                           *)
(***************************************************************************)
\* characters the "." of a JavaScript regular expression does not match
\* (U+2028 and U+2029 are not in the alphabet of the model)
LineTerminators == {"\n", "\r"}

\* \d of a JavaScript regular expression
Digits == {"0", "1", "2", "3", "4", "5", "6", "7", "8", "9"}

\* whether the literal lit occurs in s at position i
OccursAt(s, lit, i) ==
    /\ i >= 1
    /\ i + Len(lit) - 1 <= Len(s)
    /\ SubSeq(s, i, i + Len(lit) - 1) = lit

\* String.prototype.includes
Includes(s, lit) == \E i \in 1..(Len(s) + 1) : OccursAt(s, lit, i)

\* Array.prototype.includes
ArrayIncludes(arr, x) == \E i \in 1..Len(arr) : arr[i] = x

\* Array.prototype.join
RECURSIVE Join(_, _)
Join(arr, sep) ==
    IF Len(arr) = 0 THEN <<>>
    ELSE IF Len(arr) = 1 THEN arr[1]
    ELSE arr[1] \o sep \o Join(Tail(arr), sep)

\* the least element of a non-empty set of numbers
Least(S) == CHOOSE x \in S : \A y \in S : x <= y

\* the first position from i on at which lit occurs in s, 0 when there is none
FirstOccurrence(s, lit, i) ==
    LET at == { k \in i..Len(s) : OccursAt(s, lit, k) }
    IN  IF at = {} THEN 0 ELSE Least(at)

\* length of the longest run of characters of s, from position i on, that
\* satisfy: in class (neg = FALSE) or not in class (neg = TRUE)
RunLength(s, i, class, neg) ==
    LET stop == { k \in i..Len(s) : (s[k] \in class) = neg }
    IN  IF i > Len(s) THEN 0
        ELSE IF stop = {} THEN Len(s) - i + 1
        ELSE Least(stop) - i

(***************************************************************************)
(* DiagnosticFilter: extractValidationMessages                             *)
(***************************************************************************)
\* Variant of ReplaceContinuations: replace without the g flag, which
\* replaces the first occurrence only.
ReplaceContinuations_FirstOnly(s, i) ==
    LET k == FirstOccurrence(s, <<"\n", " ", " ">>, i)
    IN  IF k = 0 THEN SubSeq(s, i, Len(s))
        ELSE SubSeq(s, i, k - 1) \o <<" ">> \o SubSeq(s, k + 3, Len(s))

\* error.stderr.toString().replace(/\n  /g, " ") from position i on: the
\* text up to the next occurrence of newline, space, space is kept, the
\* occurrence becomes one space, and the search goes on after it
RECURSIVE ReplaceContinuations(_, _)
ReplaceContinuations(s, i) ==
    LET k == FirstOccurrence(s, <<"\n", " ", " ">>, i)
    IN  IF k = 0 THEN SubSeq(s, i, Len(s))
        ELSE SubSeq(s, i, k - 1) \o <<" ">> \o ReplaceContinuations(s, k + 3)

\* .split("\n") from position i on: the text between the newlines; one
\* empty line for ""
RECURSIVE SplitLines(_, _)
SplitLines(s, i) ==
    LET k == FirstOccurrence(s, <<"\n">>, i)
    IN  IF k = 0 THEN << SubSeq(s, i, Len(s)) >>
        ELSE << SubSeq(s, i, k - 1) >> \o SplitLines(s, k + 1)

\* the errorMessages of extractValidationMessages
errorMessages(stderr) == SplitLines(ReplaceContinuations(stderr, 1), 1)

WarningLiteral == <<":"," ","w","a","r","n","i","n","g",":"," ">>

\* Variant of warningMessageRegex: (?:.*) for the text, which lets a
\* diagnostic without text through.
warningMessageRegex_EmptyText(message) ==
    LET n1 == RunLength(message, 1, {":", "\n"}, TRUE)
        n2 == RunLength(message, n1 + 2, Digits, FALSE)
        p  == n1 + 2 + n2
        r  == p + Len(WarningLiteral)
    IN  /\ n1 >= 1
        /\ OccursAt(message, <<":">>, n1 + 1)
        /\ n2 >= 1
        /\ OccursAt(message, WarningLiteral, p)
        /\ RunLength(message, r, LineTerminators, TRUE) = Len(message) - r + 1

\* message.match(/^(?:[^:\n]+):(?:\d+): warning: (?:.+)$/) is not null.
\* The locator class excludes the colon that must follow it and \d excludes
\* the colon that follows the digits, so each greedy run has one possible end.
warningMessageRegex(message) ==
    LET n1 == RunLength(message, 1, {":", "\n"}, TRUE)
        n2 == RunLength(message, n1 + 2, Digits, FALSE)
        p  == n1 + 2 + n2
        r  == p + Len(WarningLiteral)
    IN  /\ n1 >= 1
        /\ OccursAt(message, <<":">>, n1 + 1)
        /\ n2 >= 1
        /\ OccursAt(message, WarningLiteral, p)
        /\ r <= Len(message)
        /\ RunLength(message, r, LineTerminators, TRUE) = Len(message) - r + 1

\* Array.prototype.filter: the elements that satisfy the callback, in order
RECURSIVE FilterWarnings(_)
FilterWarnings(messages) ==
    IF Len(messages) = 0 THEN <<>>
    ELSE IF warningMessageRegex(Head(messages))
         THEN <<Head(messages)>> \o FilterWarnings(Tail(messages))
         ELSE FilterWarnings(Tail(messages))

\* the remainingMessages of the debug branch
RECURSIVE FilterRemaining(_, _)
FilterRemaining(messages, filtered) ==
    IF Len(messages) = 0 THEN <<>>
    ELSE IF ~ArrayIncludes(filtered, Head(messages)) /\ Head(messages) # <<>>
         THEN <<Head(messages)>> \o FilterRemaining(Tail(messages), filtered)
         ELSE FilterRemaining(Tail(messages), filtered)

\* one console.warn per remaining message
WarnEach(messages) == [i \in 1..Len(messages) |-> <<"warn", "remaining", messages[i]>>]

\* lines 71-86 of extractValidationMessages: the value returned and the
\* console output, from the errorMessages
filteredMessages(all, debug) ==
    LET filtered == FilterWarnings(all)
    IN  [ messages |-> filtered,
          log      |-> IF debug THEN WarnEach(FilterRemaining(all, filtered))
                       ELSE <<>> ]

\* Variant of extractValidationMessages: in debug mode the remaining
\* messages are returned with the filtered ones.
extractValidationMessages_DebugReturnsAll(stderr, debug) ==
    LET r == filteredMessages(errorMessages(stderr), debug)
    IN  IF debug
        THEN [r EXCEPT !.messages = @ \o FilterRemaining(errorMessages(stderr), @)]
        ELSE r

\* extractValidationMessages(error), stderr being error.stderr.toString()
extractValidationMessages(stderr, debug) ==
    filteredMessages(errorMessages(stderr), debug)

(***************************************************************************)
(* ExecutionController: classification of a failure of doxygen.run         *)
(***************************************************************************)
missingLibsErrorMessage ==
    <<"e","r","r","o","r"," ","w","h","i","l","e"," ","l","o","a","d","i","n","g",
      " ","s","h","a","r","e","d"," ","l","i","b","r","a","r","i","e","s",":">>

\* error.message.match(new RegExp(`${missingLibsErrorMessage} (.+)`)):
\* the leftmost place where the marker, one space and at least one character
\* that is no line terminator follow each other; the group is greedy.
\* null |-> TRUE is the null that String.prototype.match returns when the
\* pattern matches nowhere; otherwise groups is <<whole match, group 1>>.
matchMissingLibs(message) ==
    LET pat    == missingLibsErrorMessage \o <<" ">>
        starts == { i \in 1..Len(message) :
                      /\ OccursAt(message, pat, i)
                      /\ RunLength(message, i + Len(pat), LineTerminators, TRUE) >= 1 }
    IN  IF starts = {} THEN [null |-> TRUE, groups |-> <<>>]
        ELSE LET i == Least(starts)
                 c == i + Len(pat)
                 n == RunLength(message, c, LineTerminators, TRUE)
             IN  [ null   |-> FALSE,
                   groups |-> << SubSeq(message, i, c + n - 1),
                                 SubSeq(message, c, c + n - 1) >> ]

Unknown == <<"u","n","k","n","o","w","n">>

(***************************************************************************)
(* The XML folder as a tree: a function from the path of an entry, relative*)
(* to the folder (<<>> is the folder itself), to "file" or "dir"; error is *)
(* the code of the exception a file-system call has thrown, "" for none.   *)
(***************************************************************************)
Names == {"a", "b"}

Absent == [tree |-> [q \in {} |-> "dir"], error |-> ""]

existsSync(F, p) == p \in DOMAIN F.tree

readdirSync(F, p) == { n \in Names : Append(p, n) \in DOMAIN F.tree }

isDirectory(F, p) == F.tree[p] = "dir"

RemoveNode(F, p) ==
    [F EXCEPT !.tree = [q \in (DOMAIN F.tree) \ {p} |-> F.tree[q]]]

AddNode(F, p, kind) ==
    [F EXCEPT !.tree = [q \in (DOMAIN F.tree) \cup {p} |->
                            IF q = p THEN kind ELSE F.tree[q]]]

unlinkSync(F, p) == RemoveNode(F, p)

\* fs.rmdirSync throws ENOTEMPTY on a directory that still has entries
rmdirSync(F, p) ==
    IF readdirSync(F, p) # {} THEN [F EXCEPT !.error = "ENOTEMPTY"]
    ELSE RemoveNode(F, p)

\* fs.mkdirSync(dir, { recursive: true })
mkdirSync(F, p) == AddNode(F, p, "dir")

RECURSIVE cleanDirectory(_, _)
RECURSIVE CleanEntries(_, _, _)

\* the loop body of cleanDirectory over the entries readdirSync returned
CleanEntries(F, dir, files) ==
    IF files = {} \/ F.error # "" THEN F
    ELSE LET file == CHOOSE f \in files : TRUE
             path == Append(dir, file)
             F1   == IF isDirectory(F, path)
                     THEN LET F2 == cleanDirectory(F, path)
                          IN  IF F2.error # "" THEN F2 ELSE rmdirSync(F2, path)
                     ELSE unlinkSync(F, path)
         IN  CleanEntries(F1, dir, files \ {file})

\* Variant of cleanDirectory: the files are unlinked, the subdirectories
\* are left alone.
cleanDirectory_FilesOnly(F, dir) ==
    LET files == { Append(dir, n) : n \in readdirSync(F, dir) }
        gone  == { q \in files : F.tree[q] = "file" }
    IN  [F EXCEPT !.tree = [q \in (DOMAIN F.tree) \ gone |-> F.tree[q]]]

\* Deletes all files and subdirectories in the given directory
cleanDirectory(F, dir) ==
    IF existsSync(F, dir) THEN CleanEntries(F, dir, readdirSync(F, dir))
    ELSE F

\* createDirectories([dir])
createDirectories(F, dir) ==
    IF ~existsSync(F, dir) THEN mkdirSync(F, dir) ELSE F

\* the folder itself
Root == <<>>

\* the entries below the folder, at any depth
Entries(F) == (DOMAIN F.tree) \ {Root}

\* the paths at which one more entry can be put
FreePaths(F) ==
    { Append(d, n) : d \in { q \in DOMAIN F.tree : F.tree[q] = "dir" }, n \in Names }
        \ DOMAIN F.tree

\* the existing folders holding at most n entries
RECURSIVE TreesUpTo(_)
TreesUpTo(n) ==
    IF n = 0 THEN { mkdirSync(Absent, Root) }
    ELSE LET prev == TreesUpTo(n - 1)
         IN  prev \cup UNION { { AddNode(F, p, k) : p \in FreePaths(F), k \in {"file", "dir"} }
                               : F \in prev }

\* what the XML folder can be before a run: absent, or a tree of files and
\* nested subdirectories
PriorFolders == {Absent} \cup TreesUpTo(MaxEntries)

(***************************************************************************)
(* The state of one run() of a DoxygenRunner:                              *)
(*   options       this.options                                            *)
(*   pc            the statement of run() that is next                     *)
(*   fs            the XML folder                                          *)
(*   configs       the doxygen.createConfig calls made: directives, path   *)
(*   calls         the calls made to the collaborators, in order           *)
(*   error         the exception doxygen.run has thrown                    *)
(*   validationMessages   the local of run()                               *)
(*   returned      the value run() has resolved to                         *)
(*   exitCode      the status given to process.exit (0: not called)        *)
(*   thrown        the exception run() has rejected with ("" for none)     *)
(*   log           the console output                                      *)
(*   before        the XML folder when run() was called                    *)
(***************************************************************************)
NoError == [thrown |-> FALSE, message |-> <<>>, stderr |-> <<>>]

NewRun(options, folder) ==
    [ options            |-> options,
      pc                 |-> "checkInstallation",
      fs                 |-> folder,
      configs            |-> <<>>,
      calls              |-> <<>>,
      error              |-> NoError,
      validationMessages |-> <<>>,
      returned           |-> <<>>,
      exitCode           |-> 0,
      thrown             |-> "",
      log                |-> <<>>,
      before             |-> folder ]

\* a call of a collaborator and what it answered (TRUE when it answers nothing)
Called(s, name, answer) == [s EXCEPT !.calls = Append(@, [fn |-> name, answer |-> answer])]

Logged(s, entry) == [s EXCEPT !.log = Append(@, entry)]

\* console.error(text); process.exit(1)
Exit(s, entry) ==
    [Logged(s, entry) EXCEPT !.pc = "exited", !.exitCode = 1]

\* an exception that nothing in run() catches
Throw(s, what) == [s EXCEPT !.pc = "threw", !.thrown = what]

\* checkInstallation up to the await: installed is what
\* doxygen.isDoxygenExecutableInstalled returns
checkInstallation(s, installed) ==
    LET s1 == Called(s, "isDoxygenExecutableInstalled", installed)
    IN  IF ~installed
        THEN [Logged(s1, <<"log", "downloading", <<>>>>) EXCEPT !.pc = "downloadVersion"]
        ELSE [s1 EXCEPT !.pc = "prepare"]

\* Variant of downloadVersion: the failure is reported and the run goes on.
downloadVersion_GoesOn(s, success) ==
    LET s1 == Called(s, "downloadVersion", success)
        s2 == IF ~success THEN Logged(s1, <<"error", "download failed", <<>>>>) ELSE s1
    IN  [s2 EXCEPT !.pc = "prepare"]

\* checkInstallation from the await on: success is what
\* doxygen.downloadVersion resolves to
downloadVersion(s, success) ==
    LET s1 == Called(s, "downloadVersion", success)
    IN  IF ~success
        THEN Exit(s1, <<"error", "download failed", <<>>>>)
        ELSE [s1 EXCEPT !.pc = "prepare"]

\* Variant of doxyFileOptions: EXTRACT_STATIC follows accessLevel as
\* EXTRACT_PRIVATE does.
doxyFileOptions_StaticFollowsAccess(options) ==
    [ INPUT                |-> options.sourceFolder,
      RECURSIVE_           |-> "YES",
      GENERATE_HTML        |-> "NO",
      GENERATE_LATEX       |-> "NO",
      GENERATE_XML         |-> IF options.outputXML THEN "YES" ELSE "NO",
      XML_OUTPUT           |-> options.xmlFolder,
      CASE_SENSE_NAMES     |-> "NO",
      FILE_PATTERNS        |-> Join(options.fileExtensions, <<" ">>),
      EXCLUDE_PATTERNS     |-> IF options.exclude # <<>> THEN options.exclude ELSE <<>>,
      EXTRACT_PRIVATE      |-> IF options.accessLevel = "private" THEN "YES" ELSE "NO",
      EXTRACT_STATIC       |-> IF options.accessLevel = "private" THEN "YES" ELSE "NO",
      QUIET                |-> IF options.debug THEN "NO" ELSE "YES",
      WARN_NO_PARAMDOC     |-> "YES",
      WARN_AS_ERROR        |-> "FAIL_ON_WARNINGS",
      ENABLE_PREPROCESSING |-> "NO" ]

\* the doxyFileOptions of prepare
doxyFileOptions(options) ==
    [ INPUT                |-> options.sourceFolder,
      RECURSIVE_           |-> "YES",
      GENERATE_HTML        |-> "NO",
      GENERATE_LATEX       |-> "NO",
      GENERATE_XML         |-> IF options.outputXML THEN "YES" ELSE "NO",
      XML_OUTPUT           |-> options.xmlFolder,
      CASE_SENSE_NAMES     |-> "NO",
      FILE_PATTERNS        |-> Join(options.fileExtensions, <<" ">>),
      EXCLUDE_PATTERNS     |-> IF options.exclude # <<>> THEN options.exclude ELSE <<>>,
      EXTRACT_PRIVATE      |-> IF options.accessLevel = "private" THEN "YES" ELSE "NO",
      EXTRACT_STATIC       |-> "NO",
      QUIET                |-> IF options.debug THEN "NO" ELSE "YES",
      WARN_NO_PARAMDOC     |-> "YES",
      WARN_AS_ERROR        |-> "FAIL_ON_WARNINGS",
      ENABLE_PREPROCESSING |-> "NO" ]

\* the clearing of the XML folder in prepare (lines 60-62)
clearXMLFolder(s) ==
    LET F1 == cleanDirectory(s.fs, Root)
        s1 == [Called(s, "cleanDirectory", TRUE) EXCEPT !.fs = F1]
    IN  IF F1.error # "" THEN Throw(s1, F1.error)
        ELSE [Logged(Called(s1, "createDirectories", TRUE), <<"log", "generating", <<>>>>)
                EXCEPT !.fs = createDirectories(F1, Root)]

prepare(s) ==
    LET o  == doxyFileOptions(s.options)
        s1 == IF s.options.debug THEN Logged(s, <<"log", "creating config", <<>>>>) ELSE s
        s2 == [Called(s1, "createConfig", TRUE) EXCEPT
                 !.configs = Append(@, [options |-> o, path |-> s.options.doxygenConfigFile])]
        s3 == IF s.options.debug THEN Logged(s2, <<"log", "running", <<>>>>) ELSE s2
        s4 == IF o.GENERATE_XML = "YES" THEN clearXMLFolder(s3) ELSE s3
    IN  IF s4.pc = "threw" THEN s4 ELSE [s4 EXCEPT !.pc = "doxygenRun"]

\* doxygen.run(configFile, version) inside the try: the tool reads the
\* config written last; when it generates XML it puts the files `produced`
\* into XML_OUTPUT, creating the folder when it is missing.  outcome is
\* NoError for a clean exit, else the exception thrown.
WriteFiles(F, files) ==
    [F EXCEPT !.tree = [q \in (DOMAIN F.tree) \cup { <<n>> : n \in files } |->
                           IF q \in DOMAIN F.tree THEN F.tree[q] ELSE "file"]]

doxygenRun(s, outcome, produced) ==
    LET o  == s.configs[Len(s.configs)].options
        F1 == IF o.GENERATE_XML = "YES"
              THEN WriteFiles(createDirectories(s.fs, Root), produced)
              ELSE s.fs
        s1 == [Called(s, "run", ~outcome.thrown) EXCEPT !.fs = F1]
    IN  IF outcome.thrown
        THEN [s1 EXCEPT !.pc = "catch", !.error = outcome]
        ELSE [s1 EXCEPT !.pc = "verify"]

\* Variant of catchError: the diagnostics fail the run, as WARN_AS_ERROR
\* would have it.
catchError_DiagnosticsAreFatal(s) ==
    LET r == extractValidationMessages(s.error.stderr, s.options.debug)
    IN  IF Len(r.messages) > 0
        THEN Exit([s EXCEPT !.validationMessages = r.messages],
                  <<"error", "warnings", <<>>>>)
        ELSE [s EXCEPT !.validationMessages = r.messages, !.pc = "verify"]

\* the catch block of run()
catchError(s) ==
    IF Includes(s.error.message, missingLibsErrorMessage)
    THEN LET matches == matchMissingLibs(s.error.message)
         IN  IF matches.null
             THEN \* matches.length on null
                  Throw(s, "TypeError")
             ELSE Exit(s, <<"error", "missing libraries",
                            IF Len(matches.groups) > 1 THEN matches.groups[2]
                            ELSE Unknown>>)
    ELSE LET r == extractValidationMessages(s.error.stderr, s.options.debug)
         IN  [s EXCEPT !.validationMessages = r.messages,
                       !.log = @ \o r.log,
                       !.pc = "verify"]

\* one console.log per entry, in the order readdirSync lists them
NameOrder == <<"a", "b">>

ListEach(files) ==
    LET listed == SelectSeq(NameOrder, LAMBDA n : n \in files)
    IN  [i \in 1..Len(listed) |-> <<"log", "file", <<listed[i]>>>>]

\* Variant of checkXMLOutput: the missing output is reported and the run
\* goes on.
checkXMLOutput_GoesOn(s) ==
    LET s1 == Called(s, "readdirSync", TRUE)
    IN  IF readdirSync(s.fs, Root) = {}
        THEN [Logged(s1, <<"error", "no XML files", <<>>>>) EXCEPT !.pc = "return"]
        ELSE [s1 EXCEPT !.pc = "return"]

\* checkXMLOutput, called by run() when options.outputXML is set
checkXMLOutput(s) ==
    LET s1 == Called(s, "readdirSync", TRUE)
    IN  IF ~existsSync(s.fs, Root) THEN Throw(s1, "ENOENT")
        ELSE LET xmlFiles == readdirSync(s.fs, Root)
             IN  IF Cardinality(xmlFiles) = 0
                 THEN Exit(s1, <<"error", "no XML files", <<>>>>)
                 ELSE [ (IF s.options.debug
                         THEN [s1 EXCEPT !.log = @ \o <<<<"log", "found", <<>>>>>>
                                                  \o ListEach(xmlFiles)]
                         ELSE s1) EXCEPT !.pc = "return" ]

\* Variant of verify: the output is checked whatever outputXML is.
verify_Always(s) == checkXMLOutput(s)

\* lines 107-109 of run()
verify(s) ==
    IF s.options.outputXML THEN checkXMLOutput(s) ELSE [s EXCEPT !.pc = "return"]

\* return validationMessages
returnMessages(s) ==
    [s EXCEPT !.pc = "returned", !.returned = s.validationMessages]

(***************************************************************************)
(* Inputs.                                                                 *)
(***************************************************************************)
ExtH == <<".","h">>
ExtCpp == <<".","c","p","p">>
ExcludeTests == <<"*","/","t","e","s","t","/","*">>

\* this.options; exclude <<>> stands for an exclude that is absent or empty
OptionsOf(debug, outputXML, accessLevel, fileExtensions, exclude) ==
    [ debug             |-> debug,
      outputXML         |-> outputXML,
      accessLevel       |-> accessLevel,
      fileExtensions    |-> fileExtensions,
      exclude           |-> exclude,
      sourceFolder      |-> "./src",
      xmlFolder         |-> "./build/xml/",
      doxygenConfigFile |-> "./doxygen.config",
      doxygenVersion    |-> "1.9.6" ]

\* the options that decide the control flow, the rest as index.js sets them
FlowOptions ==
    { OptionsOf(d, x, "public", <<ExtH>>, <<>>) : d \in BOOLEAN, x \in BOOLEAN }

\* every option the directives depend on
AllOptions ==
    { OptionsOf(d, x, a, f, e) :
        d \in BOOLEAN, x \in BOOLEAN,
        a \in {"public", "private", "protected"},
        f \in { <<ExtH>>, <<ExtH, ExtCpp>>, <<ExtCpp>> },
        e \in { <<>>, ExcludeTests } }

CommandFailed == <<"C","o","m","m","a","n","d"," ","f","a","i","l","e","d">>

\* error.message of a failed doxygen.run: with and without the marker, and
\* with the text that can follow the marker
MessageSamples ==
    { <<"s","h",":"," ">> \o missingLibsErrorMessage \o <<" ","l","i","b","z">> }
    \cup
    { core \o suf :
        core \in { missingLibsErrorMessage, CommandFailed },
        suf  \in { <<>>, <<" ">>, <<"\n">>,
                   <<" ","l","i","b","z",".","s","o",".","1">>,
                   <<" ","l","i","b","z",".","s","o",".","1","\n","x">>,
                   <<"\n">> \o missingLibsErrorMessage \o <<" ","l","i","b","z">> } }

\* the pieces a raw stderr text is made of
Diagnostic == <<"a",":","1",":"," ","w","a","r","n","i","n","g",":"," ","x">>

Fragments ==
    { Diagnostic,
      <<"a",":","1",":"," ","w","a","r","n","i","n","g",":"," ">>,
      <<"\n">>, <<"\n"," "," ">>,
      <<" ">>, <<"y">>, <<":">>, <<"\r">> }

\* the texts made of at most n fragments
RECURSIVE TextsUpTo(_)
TextsUpTo(n) ==
    IF n = 0 THEN { <<>> }
    ELSE LET prev == TextsUpTo(n - 1)
         IN  prev \cup { t \o f : t \in prev, f \in Fragments }

RawTexts == TextsUpTo(MaxFragments)

\* the raw error text of the worked example for the filter
ExampleText ==
    <<"a",".","h",":","1","0",":"," ","w","a","r","n","i","n","g",":"," ",
      "P","a","r","a","m"," ","'","x","'"," ","n","o","t"," ","d","o","c",
      "\n"," "," ","(","s","e","e",")",
      "\n","b",".","h",":","2","0",":"," ","w","a","r","n","i","n","g",":"," ",
      "U","n","d","o","c",
      "\n","R","a","n","d","o","m"," ","n","o","i","s","e">>

\* a diagnostic emitted twice, with noise in between
RepeatedText ==
    Diagnostic \o <<"\n","n","o","i","s","e","\n">> \o Diagnostic

StderrSamples == { <<>>, ExampleText, RepeatedText }

Failure(message, stderr) == [thrown |-> TRUE, message |-> message, stderr |-> stderr]

\* what doxygen.run can do in a run: exit cleanly or throw
RunOutcomes ==
    {NoError} \cup { Failure(m, t) : m \in MessageSamples, t \in StderrSamples }

FilterOutcomes ==
    {NoError} \cup { Failure(m, t) :
                       m \in { CommandFailed,
                               missingLibsErrorMessage \o <<" ","l","i","b","z">> },
                       t \in RawTexts \cup StderrSamples }

ConfigOutcomes == { NoError, Failure(CommandFailed, ExampleText) }

\* the files doxygen can leave in XML_OUTPUT
ProducedSamples == SUBSET Names

\* no file, or one
ProducedFew == { {}, {"a"} }

\* the XML folder absent, empty, or holding one entry
FoldersFew == {Absent} \cup TreesUpTo(1)

FoldersNone == {Absent}


(***************************************************************************)
(* The run and its twin.  tw is the run of a DoxygenRunner whose options   *)
(* differ from those of st in debug alone; it is given the same answers by *)
(* the collaborators, step by step.                                        *)
(***************************************************************************)
InitWith(Options, Folders) ==
    \E o \in Options, F \in Folders :
        /\ st = NewRun(o, F)
        /\ tw = NewRun([o EXCEPT !.debug = ~@], F)

CheckInstallation ==
    /\ st.pc = "checkInstallation"
    /\ \E installed \in BOOLEAN :
        /\ st' = checkInstallation(st, installed)
        /\ tw' = IF tw.pc = st.pc THEN checkInstallation(tw, installed) ELSE tw

DownloadVersion ==
    /\ st.pc = "downloadVersion"
    /\ \E success \in BOOLEAN :
        /\ st' = downloadVersion(st, success)
        /\ tw' = IF tw.pc = st.pc THEN downloadVersion(tw, success) ELSE tw

Prepare ==
    /\ st.pc = "prepare"
    /\ st' = prepare(st)
    /\ tw' = IF tw.pc = st.pc THEN prepare(tw) ELSE tw

DoxygenRun(Outcomes, Produced) ==
    /\ st.pc = "doxygenRun"
    /\ \E outcome \in Outcomes, produced \in Produced :
        /\ st' = doxygenRun(st, outcome, produced)
        /\ tw' = IF tw.pc = st.pc THEN doxygenRun(tw, outcome, produced) ELSE tw

CatchError ==
    /\ st.pc = "catch"
    /\ st' = catchError(st)
    /\ tw' = IF tw.pc = st.pc THEN catchError(tw) ELSE tw

Verify ==
    /\ st.pc = "verify"
    /\ st' = verify(st)
    /\ tw' = IF tw.pc = st.pc THEN verify(tw) ELSE tw

ReturnMessages ==
    /\ st.pc = "return"
    /\ st' = returnMessages(st)
    /\ tw' = IF tw.pc = st.pc THEN returnMessages(tw) ELSE tw

NextWith(Outcomes, Produced) ==
    \/ CheckInstallation
    \/ DownloadVersion
    \/ Prepare
    \/ DoxygenRun(Outcomes, Produced)
    \/ CatchError
    \/ Verify
    \/ ReturnMessages

\* every prior content of the XML folder, the options that decide the flow
Init == InitWith(FlowOptions, PriorFolders)
Next == NextWith(RunOutcomes, ProducedSamples)
Spec == Init /\ [][Next]_vars

\* every raw error text
InitFilter == InitWith(FlowOptions, FoldersNone)
NextFilter == NextWith(FilterOutcomes, ProducedFew)
SpecFilter == InitFilter /\ [][NextFilter]_vars

\* every value of the options
InitConfig == InitWith(AllOptions, FoldersFew)
NextConfig == NextWith(ConfigOutcomes, ProducedFew)
SpecConfig == InitConfig /\ [][NextConfig]_vars

(***************************************************************************)
(* Vocabulary of the properties.                                           *)
(***************************************************************************)
HasCalled(s, name) == \E i \in 1..Len(s.calls) : s.calls[i].fn = name

Answered(s, name, answer) ==
    \E i \in 1..Len(s.calls) : s.calls[i] = [fn |-> name, answer |-> answer]

LastCall(s) == s.calls[Len(s.calls)]

LastLog(s) == s.log[Len(s.log)]

\* doxygen.run has thrown and the message holds the missing-library marker
MissingLibraryFailure(s) ==
    s.error.thrown /\ Includes(s.error.message, missingLibsErrorMessage)

\* doxygen.run has thrown and the message does not hold the marker
RecoverableFailure(s) ==
    s.error.thrown /\ ~Includes(s.error.message, missingLibsErrorMessage)

\* the catch block is over
Handled(s) == s.error.thrown /\ s.pc # "catch"

\* C1: every failure of doxygen.run whose message holds the marker
\* "error while loading shared libraries:" ends the process with a non-zero
\* status, after reporting the captured library name, or "unknown" when
\* nothing can be captured; run() returns nothing and throws nothing.
C1_MissingLibraryExits ==
    (MissingLibraryFailure(st) /\ Handled(st)) =>
        /\ st.pc = "exited"
        /\ st.exitCode # 0
        /\ st.thrown = ""
        /\ st.returned = <<>>
        /\ LET m == matchMissingLibs(st.error.message)
           IN  LastLog(st) = <<"error", "missing libraries",
                               IF m.null THEN Unknown ELSE m.groups[2]>>

\* C2: once doxygen.downloadVersion has answered false the run has exited
\* with a non-zero status, and nothing was done after the download: no
\* createConfig, no clearing of the XML folder, no doxygen.run.
C2_FailedDownloadStopsRun ==
    Answered(st, "downloadVersion", FALSE) =>
        /\ st.pc = "exited"
        /\ st.exitCode # 0
        /\ LastCall(st) = [fn |-> "downloadVersion", answer |-> FALSE]
        /\ st.configs = <<>>
        /\ ~HasCalled(st, "createConfig")
        /\ ~HasCalled(st, "cleanDirectory")
        /\ ~HasCalled(st, "run")
        /\ st.fs = st.before

C2_Witness ==
    /\ Answered(st, "isDoxygenExecutableInstalled", FALSE)
    /\ Answered(st, "downloadVersion", FALSE)
    /\ st.pc = "exited"

\* C3: with outputXML set, once doxygen.run has exited cleanly or with
\* recoverable diagnostics and lines 107-109 are over, the XML folder has
\* been listed; when it has no entry the process has exited with a non-zero
\* status and run() returns nothing; when it has an entry the process has not
\* exited and run() returns its validationMessages.
C3_EmptyOutputIsFatal ==
    ( /\ st.options.outputXML
      /\ HasCalled(st, "run")
      /\ ~MissingLibraryFailure(st)
      /\ st.pc \notin {"catch", "verify"} ) =>
        /\ HasCalled(st, "readdirSync")
        /\ readdirSync(st.fs, Root) = {} =>
              /\ st.pc = "exited"
              /\ st.exitCode # 0
              /\ st.returned = <<>>
        /\ readdirSync(st.fs, Root) # {} =>
              /\ st.pc \in {"return", "returned"}
              /\ st.exitCode = 0
              /\ st.pc = "returned" => st.returned = st.validationMessages

C3_Witness ==
    /\ st.options.outputXML
    /\ RecoverableFailure(st)
    /\ Len(st.validationMessages) > 0
    /\ HasCalled(st, "readdirSync")
    /\ readdirSync(st.fs, Root) = {}
    /\ st.pc = "exited"

\* C4: with outputXML set, whatever the XML folder held before the run
\* (files, nested subdirectories, or no folder at all), between prepare()
\* and doxygen.run the folder exists and is empty.
C4_FolderEmptyAfterPrepare ==
    ( /\ st.options.outputXML
      /\ HasCalled(st, "createConfig")
      /\ ~HasCalled(st, "run") ) =>
        /\ st.pc = "doxygenRun"
        /\ existsSync(st.fs, Root)
        /\ isDirectory(st.fs, Root)
        /\ Entries(st.fs) = {}
        /\ st.fs.error = ""

\* the folder held a file inside a subdirectory, and a second entry
C4_Witness ==
    /\ st.options.outputXML
    /\ st.pc = "doxygenRun"
    /\ \E p \in Entries(st.before) : Len(p) >= 2 /\ st.before.tree[p] = "file"
    /\ Cardinality(Entries(st.before)) = MaxEntries
    /\ Entries(st.fs) = {}

\* The shape of a documentation diagnostic, anchored to the whole line:
\* a non-empty locator without colon or newline, a colon, one or more
\* digits, ": warning: ", and a non-empty text without line terminator.
DiagnosticShape(line) ==
    \E i \in 2..Len(line), j \in 3..Len(line) :
        /\ i + 1 < j
        /\ \A k \in 1..(i - 1) : line[k] \notin {":", "\n"}
        /\ line[i] = ":"
        /\ \A k \in (i + 1)..(j - 1) : line[k] \in Digits
        /\ OccursAt(line, WarningLiteral, j)
        /\ j + Len(WarningLiteral) <= Len(line)
        /\ \A k \in (j + Len(WarningLiteral))..Len(line) : line[k] \notin LineTerminators

\* the lines of the normalized text that have the shape, as emitted
DiagnosticLines(stderr) == SelectSeq(errorMessages(stderr), DiagnosticShape)

\* C5: for every raw error text, extractValidationMessages returns exactly
\* the lines of the normalized text that have the diagnostic shape, in the
\* order of the text and as many times as they occur; no other line is
\* returned, and the empty text gives no message.
C5_FilterKeepsDiagnosticLines ==
    \A s \in {st, tw} :
        (RecoverableFailure(s) /\ Handled(s)) =>
            /\ s.validationMessages = DiagnosticLines(s.error.stderr)
            /\ \A i \in 1..Len(s.validationMessages) :
                  DiagnosticShape(s.validationMessages[i])
            /\ s.error.stderr = <<>> => s.validationMessages = <<>>

C5_Witness ==
    /\ RecoverableFailure(st)
    /\ Handled(st)
    /\ st.error.stderr = RepeatedText
    /\ Len(errorMessages(st.error.stderr)) = 3
    /\ st.validationMessages = <<Diagnostic, Diagnostic>>

\* C6: a failure of doxygen.run whose message does not hold the marker is
\* returned as data: run() throws nothing, the process exits only for an
\* empty XML folder, and with outputXML unset or the folder non-empty run()
\* returns exactly the diagnostic lines of error.stderr.
C6_DiagnosticsAreReturned ==
    (RecoverableFailure(st) /\ Handled(st)) =>
        LET kept == ~st.options.outputXML \/ readdirSync(st.fs, Root) # {}
        IN  /\ st.pc # "threw"
            /\ st.thrown = ""
            /\ st.validationMessages = DiagnosticLines(st.error.stderr)
            /\ st.pc = "exited" =>
                  /\ ~kept
                  /\ LastLog(st) = <<"error", "no XML files", <<>>>>
            /\ kept =>
                  /\ st.pc \in {"verify", "return", "returned"}
                  /\ st.exitCode = 0
            /\ st.pc = "returned" => st.returned = DiagnosticLines(st.error.stderr)

C6_Witness ==
    /\ RecoverableFailure(st)
    /\ st.error.stderr = ExampleText
    /\ st.pc = "returned"
    /\ Len(st.returned) = 2

\* a is b with entries left out
RECURSIVE IsSubsequence(_, _)
IsSubsequence(a, b) ==
    IF Len(a) = 0 THEN TRUE
    ELSE IF Len(b) = 0 THEN FALSE
    ELSE IF Head(a) = Head(b) THEN IsSubsequence(Tail(a), Tail(b))
    ELSE IsSubsequence(a, Tail(b))

\* C7: two runs that differ in debug alone and are given the same answers
\* by the collaborators are at the same statement, have made the same
\* calls, hold the same messages and folder, and end the same way with the
\* same returned value; the run with debug only logs more.  In particular
\* the filter returns the same messages for the same text.
C7_DebugOnlyAddsLog ==
    LET on  == IF st.options.debug THEN st ELSE tw
        off == IF st.options.debug THEN tw ELSE st
    IN  /\ on.options.debug /\ ~off.options.debug
        /\ on.options = [off.options EXCEPT !.debug = TRUE]
        /\ on.pc = off.pc
        /\ on.calls = off.calls
        /\ on.error = off.error
        /\ on.fs = off.fs
        /\ on.validationMessages = off.validationMessages
        /\ on.returned = off.returned
        /\ on.exitCode = off.exitCode
        /\ on.thrown = off.thrown
        /\ IsSubsequence(off.log, on.log)

C7_Witness ==
    /\ st.pc = "returned"
    /\ tw.pc = "returned"
    /\ Len(st.returned) > 0
    /\ Len(st.log) # Len(tw.log)
    /\ \E i \in 1..Len(st.log) : st.log[i][2] = "remaining"

\* C8: the directives prepare() gives to createConfig follow the options:
\* FILE_PATTERNS is the fileExtensions joined by single spaces,
\* EXTRACT_PRIVATE is YES exactly for accessLevel "private", EXTRACT_STATIC
\* is NO, QUIET is the negation of debug, GENERATE_XML is YES exactly when
\* outputXML is set; two runs whose options differ in debug alone get
\* directives that differ in QUIET alone.
C8_DirectivesFollowOptions ==
    HasCalled(st, "createConfig") =>
        /\ Len(st.configs) = 1
        /\ st.configs[1].path = st.options.doxygenConfigFile
        /\ LET c == st.configs[1].options
               o == st.options
           IN  /\ Len(o.fileExtensions) = 1 => c.FILE_PATTERNS = o.fileExtensions[1]
               /\ Len(o.fileExtensions) = 2 =>
                     c.FILE_PATTERNS = o.fileExtensions[1] \o <<" ">> \o o.fileExtensions[2]
               /\ o.fileExtensions = <<ExtH>> => c.FILE_PATTERNS = <<".","h">>
               /\ o.fileExtensions = <<ExtH, ExtCpp>> =>
                     c.FILE_PATTERNS = <<".","h"," ",".","c","p","p">>
               /\ c.EXTRACT_PRIVATE = (IF o.accessLevel = "private" THEN "YES" ELSE "NO")
               /\ c.EXTRACT_STATIC = "NO"
               /\ c.QUIET = (IF o.debug THEN "NO" ELSE "YES")
               /\ c.GENERATE_XML = (IF o.outputXML THEN "YES" ELSE "NO")
               /\ HasCalled(tw, "createConfig") =>
                     tw.configs[1].options =
                        [c EXCEPT !.QUIET = IF o.debug THEN "YES" ELSE "NO"]

C8_Witness ==
    /\ HasCalled(st, "createConfig")
    /\ st.options.fileExtensions = <<ExtH, ExtCpp>>
    /\ st.options.accessLevel = "private"
    /\ st.options.debug
    /\ st.options.outputXML
    /\ st.configs[1].options.EXTRACT_PRIVATE = "YES"
    /\ st.configs[1].options.EXTRACT_STATIC = "NO"

\* the newlines of text that start a continuation: followed by exactly two
\* spaces (exact), or by two spaces or more
ContinuationStarts(text, exact) ==
    { i \in 1..Len(text) :
        /\ OccursAt(text, <<"\n", " ", " ">>, i)
        /\ exact => ~OccursAt(text, <<" ">>, i + 3) }

\* text with each continuation's newline and first two spaces made one space
Melded(text, starts) ==
    LET dropped == { i + 1 : i \in starts } \cup { i + 2 : i \in starts }
        kept    == SelectSeq([i \in 1..Len(text) |-> i], LAMBDA i : i \notin dropped)
    IN  [k \in 1..Len(kept) |-> IF kept[k] \in starts THEN " " ELSE text[kept[k]]]

\* what a run shows of the filter: the messages and the console.warn lines
ObservedFilter(s) ==
    [ messages |-> s.validationMessages,
      log      |-> SelectSeq(s.log, LAMBDA e : e[1] = "warn") ]

ExpectedFilter(s, exact) ==
    LET text == s.error.stderr
    IN  filteredMessages(SplitLines(Melded(text, ContinuationStarts(text, exact)), 1),
                         s.options.debug)

\* C9 as stated: only a newline followed by exactly two spaces is a
\* continuation; a newline followed by no, one, three or more spaces stays
\* a line break.
C9_ExactlyTwoSpaces ==
    \A s \in {st, tw} :
        (RecoverableFailure(s) /\ Handled(s)) => ObservedFilter(s) = ExpectedFilter(s, TRUE)

\* C9 amended: a newline followed by two spaces or more is a continuation:
\* the newline and its first two spaces become one space and the further
\* spaces stay; a newline followed by no or one space stays a line break.
C9_TwoSpacesOrMore ==
    \A s \in {st, tw} :
        (RecoverableFailure(s) /\ Handled(s)) => ObservedFilter(s) = ExpectedFilter(s, FALSE)

\* a diagnostic followed by a newline and three spaces is one message
C9_Witness ==
    /\ RecoverableFailure(st)
    /\ Handled(st)
    /\ st.error.stderr = Diagnostic \o <<"\n", " ", " ", " ">>
    /\ st.validationMessages = << Diagnostic \o <<" ", " ">> >>

\* C10: with outputXML unset the run neither changes nor reads the XML
\* folder: no cleanDirectory, no createDirectories, no readdirSync, the
\* folder is as it was, and the run never exits for missing XML files.
C10_FolderUntouchedWithoutXML ==
    ~st.options.outputXML =>
        /\ st.fs = st.before
        /\ ~HasCalled(st, "cleanDirectory")
        /\ ~HasCalled(st, "createDirectories")
        /\ ~HasCalled(st, "readdirSync")
        /\ st.thrown \notin {"ENOENT", "ENOTEMPTY"}
        /\ st.pc = "exited" => LastLog(st) # <<"error", "no XML files", <<>>>>

\* the folder does not exist and the run returns
C10_Witness ==
    /\ ~st.options.outputXML
    /\ ~existsSync(st.before, Root)
    /\ st.pc = "returned"

====
